---- MODULE Spec2Model ----
(***************************************************************************)
(* A model of build.py, the Discourse application builder: one process     *)
(* run from argument parsing through load_config, the composition pass     *)
(* over the documents, the two artifact writes and the engine calls.       *)
(*                                                                         *)
(* Strings are sequences of pieces (TLA+ strings), so that concatenation,  *)
(* the "{config}" replacement, the "=" split and the "./" prefix test are  *)
(* computed.  A file's text is a record: its raw tokens (literal text and  *)
(* $name references) and what yaml.safe_load makes of it.                  *)
(***************************************************************************)
EXTENDS Integers, Sequences, FiniteSets, TLC

VARIABLES pc, command, fs, config, templates, tIdx, input_parts, cid,
          pIdx, params, dkrargs, base_image, build_parts,
          init_file, build_file, engine, out, exitCode

vars == <<pc, command, fs, config, templates, tIdx, input_parts, cid,
          pIdx, params, dkrargs, base_image, build_parts,
          init_file, build_file, engine, out, exitCode>>

(* Longest `templates` list of a config file. *)
MaxTemplates == 2

-----------------------------------------------------------------------------
(* Program constants *)

BASE_IMAGE == <<"discourse/base:2.0.20250715-0020">>

DKR_PATH == <<"dkr">>

CONTAINER_NAME == <<"local_discourse">>

MAGIC_SEPARATOR == <<[t |-> "lit", s |-> "\n_FILE_SEPERATOR_\n"]>>

(* The choices argparse accepts for `command` (add_parser calls). *)
Subcommands == {"enter", "build", "rebuild", "start", "stop", "restart", "start-cmd"}

(* The commands of the dispatch chain in main. *)
Commands == {"enter", "build", "rebuild", "start", "stop", "restart", "start-cmd", "logs"}

(* Default of --template-root. *)
template_root == <<".", "./discourse_docker">>

(* The positional argument and Path(args.config_name).stem *)
config_file == <<"app", ".yml">>

Stem(path) == IF Len(path) > 1 THEN SubSeq(path, 1, Len(path) - 1) ELSE path

config_name == Stem(config_file)

(* Python's None; docker ps output is a str and so never this value. *)
PyNone == "<None>"

-----------------------------------------------------------------------------
(* YAML scalars and texts *)

YStr(s) == [k |-> "str", s |-> s, n |-> 0, b |-> FALSE]
YInt(n) == [k |-> "int", s |-> <<>>, n |-> n, b |-> FALSE]
YBool(b) == [k |-> "bool", s |-> <<>>, n |-> 0, b |-> b]
YNull == [k |-> "null", s |-> <<>>, n |-> 0, b |-> FALSE]

Lit(s) == [t |-> "lit", s |-> s]
Var(n) == [t |-> "var", s |-> n]

EmptyDict == [k \in {} |-> <<>>]

(* Python truthiness of a scalar. *)
Truthy(v) ==
    CASE v.k = "null" -> FALSE
      [] v.k = "int" -> v.n # 0
      [] v.k = "bool" -> v.b
      [] v.k = "str" -> v.s # <<>>

(* str(v) *)
PyStr(v) ==
    CASE v.k = "null" -> <<"None">>
      [] v.k = "int" -> <<ToString(v.n)>>
      [] v.k = "bool" -> IF v.b THEN <<"True">> ELSE <<"False">>
      [] v.k = "str" -> v.s

(* str(v or '') *)
StrOrEmpty(v) == IF Truthy(v) THEN PyStr(v) ELSE <<>>

(* s.replace(old, new), old being one piece *)
RECURSIVE Replace(_, _, _)
Replace(s, old, new) ==
    IF s = <<>> THEN <<>>
    ELSE (IF Head(s) = old THEN new ELSE <<Head(s)>>) \o Replace(Tail(s), old, new)

(* sep.join(parts) over token sequences *)
RECURSIVE Join(_, _)
Join(sep, parts) ==
    IF parts = <<>> THEN <<>>
    ELSE IF Len(parts) = 1 THEN parts[1]
    ELSE parts[1] \o sep \o Join(sep, Tail(parts))

(* " ".join(argv) *)
RECURSIVE JoinArgs(_)
JoinArgs(argv) ==
    IF argv = <<>> THEN <<>>
    ELSE IF Len(argv) = 1 THEN argv[1]
    ELSE argv[1] \o <<" ">> \o JoinArgs(Tail(argv))

(* A merge in which the first document to set a key wins. *)
DictUpdateKeepFirst(a, b) ==
    [k \in DOMAIN a \cup DOMAIN b |-> IF k \in DOMAIN a THEN a[k] ELSE b[k]]

(* dict.update *)
DictUpdate(a, b) ==
    [k \in DOMAIN a \cup DOMAIN b |-> IF k \in DOMAIN b THEN b[k] ELSE a[k]]

(* yaml.safe_load: the mapping a text parses to *)
safe_load(text) == text.yml

-----------------------------------------------------------------------------
(* The files on disk *)

TemplateNames == {"web.yml", "db.yml"}

FileStates == {"absent", "unreadable", "present"}

Bootstrap == [raw |-> <<Lit("hack: true")>>, valid |-> TRUE, yml |-> [hack |-> TRUE]]

FileText(root, name) ==
    CASE root = "." /\ name = "web.yml" ->
           [raw |-> <<Lit("# ./web.yml"), Lit("cd "), Var("home")>>,
            valid |-> TRUE,
            yml |-> [params |-> [home |-> <<"/var/www">>, db_name |-> <<"discourse">>],
                     env |-> << <<"FOO", YStr(<<"bar">>)>>, <<"LANG", YStr(<<"en_US.UTF-8">>)>> >>,
                     expose |-> << <<"80", "=", "8080">>, <<"443">> >>,
                     build |-> <<"bundle install">>]]
      [] root = "./discourse_docker" /\ name = "web.yml" ->
           [raw |-> <<Lit("# ./discourse_docker/web.yml"), Lit("echo "), Var("missing_var")>>,
            valid |-> TRUE,
            yml |-> [params |-> [home |-> <<"/srv">>],
                     env |-> << <<"WORKERS", YInt(0)>>,
                                <<"HOST", YStr(<<"{config}", ".example.org">>)>>,
                                <<"FOO", YStr(<<"bar">>)>> >>,
                     labels |-> << <<"debug", YBool(FALSE)>>, <<"blank", YNull>>,
                                   <<"app", YStr(<<"{config}">>)>> >>,
                     volumes |-> << [volume |-> [host |-> <<"./", "shared">>, guest |-> <<"/shared">>]],
                                    [volume |-> [host |-> <<"/var/log">>, guest |-> <<"/log">>]] >>]]
      [] root = "." /\ name = "db.yml" ->
           [raw |-> <<Lit("# ./db.yml"), Lit("env: [unbalanced")>>,
            valid |-> FALSE,
            yml |-> [invalid |-> TRUE]]
      [] OTHER ->
           [raw |-> <<Lit("# ./discourse_docker/db.yml"), Lit("createdb "), Var("db_name")>>,
            valid |-> TRUE,
            yml |-> [params |-> [db_name |-> <<"pg">>, db_port |-> <<"5432">>],
                     env |-> << <<"DB_POOL", YInt(5)>>, <<"DB_SSL", YBool(TRUE)>> >>,
                     docker_args |-> << <<"--shm-size=512m">> >>,
                     base_image |-> <<"discourse/base:release">>,
                     build_hooks |-> <<"after_code">>]]

(* The sections of a config file, next to its `templates` key. *)
ConfigBodies ==
    { [tag |-> "override",
       yml |-> [params |-> [home |-> <<"/cfg">>],
                env |-> << <<"FOO", YStr(<<"baz">>)>> >>]],
      [tag |-> "labels",
       yml |-> [labels |-> << <<"name", YStr(<<"{config}", "-", "{config}">>)>>, <<"tier", YInt(1)>> >>,
                env |-> << <<"EMPTY", YStr(<<>>)>> >>]] }

RECURSIVE NameTokens(_)
NameTokens(names) ==
    IF names = <<>> THEN <<>> ELSE <<Lit(Head(names))>> \o NameTokens(Tail(names))

ConfigText(body, hasTemplates, names) ==
    [raw |-> <<Lit("# app.yml"), Lit(body.tag)>>
               \o (IF hasTemplates THEN <<Lit("templates:")>> \o NameTokens(names) ELSE <<>>),
     valid |-> TRUE,
     yml |-> IF hasTemplates THEN [templates |-> names] @@ body.yml ELSE body.yml]

BrokenConfigText == [raw |-> <<Lit("# app.yml"), Lit("{{")>>, valid |-> FALSE, yml |-> [invalid |-> TRUE]]

TemplateLists == UNION { [1..n -> TemplateNames] : n \in 0..MaxTemplates }

ConfigFiles ==
    { [state |-> "present", text |-> ConfigText(b, TRUE, l)] : b \in ConfigBodies, l \in TemplateLists }
    \cup { [state |-> "present", text |-> ConfigText(b, FALSE, <<>>)] : b \in ConfigBodies }
    \cup { [state |-> "present", text |-> BrokenConfigText],
           [state |-> "unreadable", text |-> BrokenConfigText] }

(* The artifacts left in dkr/ by an earlier run. *)
Stale == <<Lit("# written by an earlier run")>>

-----------------------------------------------------------------------------
(* load_config *)

(* config_yml.get("templates", []) *)
GetTemplates(yml) == IF "templates" \in DOMAIN yml THEN yml.templates ELSE <<>>

(* os.path.join(template_path, template) *)
PathJoin(root, name) == <<root, "/", name>>

(* The inner loop over template_paths for one template: the first root     *)
(* where the file exists and can be read; a failed read prints and goes on *)
(* to the next root.                                                       *)
RECURSIVE FindTemplate(_, _, _, _)
FindTemplate(disk, template, i, printed) ==
    IF i > Len(template_root)
    THEN [found |-> FALSE, text |-> Bootstrap, printed |-> printed]
    ELSE LET template_path == template_root[i]
             full_template_path == PathJoin(template_path, template)
         IN  IF disk[template_path, template] = "absent"
             THEN FindTemplate(disk, template, i + 1, printed)
             ELSE IF disk[template_path, template] = "present"
             THEN [found |-> TRUE, text |-> FileText(template_path, template),
                   printed |-> printed]
             ELSE FindTemplate(disk, template, i + 1,
                      Append(printed, <<"Error reading template ">> \o full_template_path))

(* A loader that puts each new part in front of the earlier ones. *)
AppendPartInFront(parts, text) == <<text>> \o parts

(* input_parts.append(...) *)
AppendPart(parts, text) == Append(parts, text)

Exit(code, printed) ==
    /\ pc' = "exit"
    /\ exitCode' = code
    /\ out' = out \o printed

(* parser.parse_args(): a command outside the subparsers is rejected. *)
ParseArgs ==
    /\ pc = "parse_args"
    /\ IF command \in Subcommands
       THEN /\ pc' = "read_config"
            /\ UNCHANGED <<out, exitCode>>
       ELSE Exit(2, << <<"error: argument command: invalid choice: ", command>> >>)
    /\ UNCHANGED <<command, fs, config, templates, tIdx, input_parts, cid, pIdx, params,
                   dkrargs, base_image, build_parts, init_file, build_file, engine>>

(* Reading and parsing the config file, up to input_parts = ["hack: true"]. *)
ReadConfig ==
    /\ pc = "read_config"
    /\ IF config.state = "present" /\ config.text.valid
       THEN /\ templates' = GetTemplates(safe_load(config.text))
            /\ input_parts' = <<Bootstrap>>
            /\ tIdx' = 1
            /\ pc' = "load_templates"
            /\ UNCHANGED <<out, exitCode>>
       ELSE /\ Exit(1, << <<"Error reading config file">> >>)
            /\ UNCHANGED <<templates, input_parts, tIdx>>
    /\ UNCHANGED <<command, fs, config, cid, pIdx, params, dkrargs, base_image,
                   build_parts, init_file, build_file, engine>>

(* One iteration of `for template in templates`. *)
LoadTemplate ==
    /\ pc = "load_templates"
    /\ tIdx <= Len(templates)
    /\ LET template == templates[tIdx]
           r == FindTemplate(fs, template, 1, <<>>)
       IN  IF r.found
           THEN /\ input_parts' = AppendPart(input_parts, r.text)
                /\ tIdx' = tIdx + 1
                /\ out' = out \o r.printed
                /\ UNCHANGED <<pc, exitCode>>
           ELSE /\ Exit(1, r.printed \o
                           << <<"Error: template '", template,
                                "' not found in any of the template paths: ">>
                              \o template_root >>)
                /\ UNCHANGED <<input_parts, tIdx>>
    /\ UNCHANGED <<command, fs, config, templates, cid, pIdx, params, dkrargs, base_image,
                   build_parts, init_file, build_file, engine>>

(* The config file's text goes last; load_config returns. *)
ReturnParts ==
    /\ pc = "load_templates"
    /\ tIdx > Len(templates)
    /\ input_parts' = AppendPart(input_parts, config.text)
    /\ build_parts' = <<>>
    /\ pc' = "docker_ps"
    /\ UNCHANGED <<command, fs, config, templates, tIdx, cid, pIdx, params, dkrargs,
                   base_image, init_file, build_file, engine, out, exitCode>>

-----------------------------------------------------------------------------
(* substitute *)

(* replacer: the replacement text of one token *)
replacer(ps, tok) ==
    IF tok.t = "var" /\ tok.s \in DOMAIN ps
    THEN [t |-> "sub", s |-> ps[tok.s]]
    ELSE tok

(* re.sub(pattern, replacer, s): one pass, replacements are not rescanned *)
substitute(ps, s) == [i \in DOMAIN s |-> replacer(ps, s[i])]

(* The WARN lines replacer prints during substitute(ps, s). *)
RECURSIVE substitute_warnings(_, _)
substitute_warnings(ps, s) ==
    IF s = <<>> THEN <<>>
    ELSE (IF Head(s).t = "var" /\ Head(s).s \notin DOMAIN ps
          THEN << <<"WARN: found parameter $", Head(s).s, " but could not substitute it!">> >>
          ELSE <<>>)
         \o substitute_warnings(ps, Tail(s))

-----------------------------------------------------------------------------
(* main: the composition pass *)

ComposingCommands == {"build", "rebuild", "start", "start-cmd"}

Has(yml, key) == key \in DOMAIN yml

(* One engine invocation and its exit status. *)
Call(argv, rc) == [argv |-> argv, rc |-> rc]

(* The `build` -> `run`, `build_hooks` -> `hooks` renaming on a copy of yml. *)
Byml(yml) ==
    LET keys == (DOMAIN yml \ {"build", "build_hooks"})
                \cup (IF Has(yml, "build") THEN {"run"} ELSE {})
                \cup (IF Has(yml, "build_hooks") THEN {"hooks"} ELSE {})
    IN  [k \in keys |->
            IF k = "run" /\ Has(yml, "build") THEN yml["build"]
            ELSE IF k = "hooks" /\ Has(yml, "build_hooks") THEN yml["build_hooks"]
            ELSE yml[k]]

(* yaml.dump(byml) *)
Dump(byml) == <<[t |-> "yaml", y |-> byml]>>

(* v = str(v or '').replace("{config}", config_name) *)
FlagValue(v) == Replace(StrOrEmpty(v), "{config}", config_name)

(* The `env` / `labels` loops: flag, "k=v" for each item in mapping order. *)
RECURSIVE FlagPairs(_, _)
FlagPairs(flag, items) ==
    IF items = <<>> THEN <<>>
    ELSE << <<flag>>, <<Head(items)[1], "=">> \o FlagValue(Head(items)[2]) >>
         \o FlagPairs(flag, Tail(items))

(* port.split("=", 1) *)
FirstEq(port) == CHOOSE i \in 1..Len(port) :
                    port[i] = "=" /\ \A j \in 1..(i - 1) : port[j] # "="

RECURSIVE ExposeArgs(_)
ExposeArgs(ports) ==
    IF ports = <<>> THEN <<>>
    ELSE LET port == Head(ports)
         IN  (IF \E i \in 1..Len(port) : port[i] = "="
              THEN << <<"--expose">>,
                      SubSeq(port, 1, FirstEq(port) - 1) \o <<":">>
                        \o SubSeq(port, FirstEq(port) + 1, Len(port)) >>
              ELSE << <<"-p">>, port >>)
             \o ExposeArgs(Tail(ports))

(* os.path.abspath of a "./" path *)
AbsPath(host) == <<"/cwd/">> \o Tail(host)

RECURSIVE VolumeArgs(_)
VolumeArgs(volumes) ==
    IF volumes = <<>> THEN <<>>
    ELSE LET volume == Head(volumes).volume
             host == IF volume.host # <<>> /\ Head(volume.host) = "./"
                     THEN AbsPath(volume.host) ELSE volume.host
         IN  << <<"-v">>, host \o <<":">> \o volume.guest >> \o VolumeArgs(Tail(volumes))

(* What one document appends to dkrargs. *)
PartArgs(yml) ==
    (IF Has(yml, "env") THEN FlagPairs("-e", yml.env) ELSE <<>>)
    \o (IF Has(yml, "labels") THEN FlagPairs("-l", yml.labels) ELSE <<>>)
    \o (IF Has(yml, "expose") THEN ExposeArgs(yml.expose) ELSE <<>>)
    \o (IF Has(yml, "volumes") THEN VolumeArgs(yml.volumes) ELSE <<>>)
    \o (IF Has(yml, "docker_args") THEN yml.docker_args ELSE <<>>)

RECURSIVE Raws(_)
Raws(parts) == IF parts = <<>> THEN <<>> ELSE <<Head(parts).raw>> \o Raws(Tail(parts))

(* docker ps -q -f name=<config_name>: the id of a running container, or "". *)
DockerPs ==
    /\ pc = "docker_ps"
    /\ \E res \in {"", "c0ffee", "failed"} :
         LET argv == << <<"docker">>, <<"ps">>, <<"-q">>, <<"-f">>, <<"name=">> \o config_name >>
         IN  IF res = "failed"
             THEN /\ engine' = Append(engine, Call(argv, 1))
                  /\ Exit(1, << <<"CalledProcessError">> >>)
                  /\ UNCHANGED cid
             ELSE /\ engine' = Append(engine, Call(argv, 0))
                  /\ cid' = res
                  /\ pc' = IF command \in ComposingCommands THEN "begin_compose" ELSE "dispatch"
                  /\ UNCHANGED <<out, exitCode>>
    /\ UNCHANGED <<command, fs, config, templates, tIdx, input_parts, pIdx, params, dkrargs,
                   base_image, build_parts, init_file, build_file>>

(* rebuild stops a running container; the accumulators are initialised. *)
BeginCompose ==
    /\ pc = "begin_compose"
    /\ \E rc \in {0, 1} :
         IF command = "rebuild" /\ cid # ""
         THEN /\ engine' = Append(engine, Call(<< <<"docker">>, <<"stop">>, <<cid>> >>, rc))
              /\ IF rc = 0
                 THEN pc' = "compose" /\ UNCHANGED <<out, exitCode>>
                 ELSE Exit(1, << <<"CalledProcessError">> >>)
         ELSE /\ rc = 0
              /\ pc' = "compose"
              /\ UNCHANGED <<engine, out, exitCode>>
    /\ dkrargs' = <<>>
    /\ params' = EmptyDict
    /\ base_image' = BASE_IMAGE
    /\ pIdx' = 1
    /\ UNCHANGED <<command, fs, config, templates, tIdx, input_parts, cid, build_parts,
                   init_file, build_file>>

(* A pass that skips a document it cannot parse and carries on. *)
ComposePartSkipInvalid ==
    /\ pc = "compose"
    /\ pIdx <= Len(input_parts)
    /\ LET part == input_parts[pIdx]
           yml == safe_load(part)
       IN  IF ~part.valid
           THEN /\ pIdx' = pIdx + 1
                /\ UNCHANGED <<pc, out, exitCode, params, dkrargs, base_image, build_parts>>
           ELSE /\ params' = IF Has(yml, "params") THEN DictUpdate(params, yml.params) ELSE params
                /\ build_parts' = IF Has(yml, "build") \/ Has(yml, "build_hooks")
                                  THEN Append(build_parts, Dump(Byml(yml)))
                                  ELSE build_parts
                /\ dkrargs' = dkrargs \o PartArgs(yml)
                /\ base_image' = IF Has(yml, "base_image") THEN yml.base_image ELSE base_image
                /\ pIdx' = pIdx + 1
                /\ UNCHANGED <<pc, out, exitCode>>
    /\ UNCHANGED <<command, fs, config, templates, tIdx, input_parts, cid,
                   init_file, build_file, engine>>

(* One iteration of `for part in input_parts`. *)
ComposePart ==
    /\ pc = "compose"
    /\ pIdx <= Len(input_parts)
    /\ LET part == input_parts[pIdx]
           yml == safe_load(part)
       IN  IF ~part.valid
           THEN /\ Exit(1, << <<"yaml.YAMLError">> >>)
                /\ UNCHANGED <<pIdx, params, dkrargs, base_image, build_parts>>
           ELSE /\ params' = IF Has(yml, "params") THEN DictUpdate(params, yml.params) ELSE params
                /\ build_parts' = IF Has(yml, "build") \/ Has(yml, "build_hooks")
                                  THEN Append(build_parts, Dump(Byml(yml)))
                                  ELSE build_parts
                /\ dkrargs' = dkrargs \o PartArgs(yml)
                /\ base_image' = IF Has(yml, "base_image") THEN yml.base_image ELSE base_image
                /\ pIdx' = pIdx + 1
                /\ UNCHANGED <<pc, out, exitCode>>
    /\ UNCHANGED <<command, fs, config, templates, tIdx, input_parts, cid,
                   init_file, build_file, engine>>

(* dkr/init: the raw documents joined by the separator. *)
WriteInit ==
    /\ pc = "compose"
    /\ pIdx > Len(input_parts)
    /\ init_file' = Join(MAGIC_SEPARATOR, Raws(input_parts))
    /\ pc' = "write_build"
    /\ UNCHANGED <<command, fs, config, templates, tIdx, input_parts, cid, pIdx, params,
                   dkrargs, base_image, build_parts, build_file, engine, out, exitCode>>

(* dkr/build: the build documents joined by the separator. *)
WriteBuild ==
    /\ pc = "write_build"
    /\ build_file' = Join(MAGIC_SEPARATOR, build_parts)
    /\ pc' = IF command \in {"build", "rebuild"} THEN "docker_build" ELSE "start"
    /\ UNCHANGED <<command, fs, config, templates, tIdx, input_parts, cid, pIdx, params,
                   dkrargs, base_image, build_parts, init_file, engine, out, exitCode>>

ImageTag == CONTAINER_NAME \o <<"/">> \o config_name

DockerBuild ==
    /\ pc = "docker_build"
    /\ \E rc \in {0, 1} :
         /\ engine' = Append(engine,
                Call(<< <<"docker">>, <<"build">>, <<"--no-cache">>, <<"-t">>, ImageTag,
                        <<"--build-arg">>, <<"BASE_IMAGE=">> \o base_image, DKR_PATH >>, rc))
         /\ IF rc = 0
            THEN pc' = "start" /\ UNCHANGED <<out, exitCode>>
            ELSE Exit(1, << <<"CalledProcessError">> >>)
    /\ UNCHANGED <<command, fs, config, templates, tIdx, input_parts, cid, pIdx, params,
                   dkrargs, base_image, build_parts, init_file, build_file>>

RunArgv(flags) ==
    << <<"docker">>, <<"run">>, <<"--rm">> >> \o flags
       \o << <<"--name">>, config_name >> \o dkrargs \o <<ImageTag>>

(* `start` and `rebuild` run the container, `start-cmd` prints the command. *)
StartContainer ==
    /\ pc = "start"
    /\ \E rc \in {0, 1} :
         IF command \in {"start", "rebuild"}
         THEN IF command = "rebuild" /\ cid = PyNone
              THEN /\ rc = 0
                   /\ pc' = "done"
                   /\ UNCHANGED <<engine, out, exitCode>>
              ELSE /\ engine' = Append(engine, Call(RunArgv(<< <<"-d">>, <<"-i">> >>), rc))
                   /\ IF rc = 0
                      THEN pc' = "done" /\ UNCHANGED <<out, exitCode>>
                      ELSE Exit(1, << <<"CalledProcessError">> >>)
         ELSE /\ rc = 0
              /\ pc' = "done"
              /\ out' = IF command = "start-cmd"
                        THEN Append(out, JoinArgs(RunArgv(<< <<"-i">> >>)))
                        ELSE out
              /\ UNCHANGED <<engine, exitCode>>
    /\ UNCHANGED <<command, fs, config, templates, tIdx, input_parts, cid, pIdx, params,
                   dkrargs, base_image, build_parts, init_file, build_file>>

(* The restart / stop / enter / logs branches. *)
Dispatch ==
    /\ pc = "dispatch"
    /\ \E rc \in {0, 1} :
         LET argv == CASE command = "restart" -> << <<"docker">>, <<"restart">>, <<cid>> >>
                       [] command = "stop" -> << <<"docker">>, <<"stop">>, <<cid>> >>
                       [] command = "enter" -> << <<"docker">>, <<"exec">>, <<"-it">>, config_name,
                                                  <<"/bin/bash">>, <<"--login">> >>
                       [] command = "logs" -> << <<"docker">>, <<"logs">>, config_name >>
                       [] OTHER -> <<>>
         IN  IF command \in {"restart", "stop"} /\ cid = ""
             THEN /\ rc = 0
                  /\ pc' = "done"
                  /\ UNCHANGED <<engine, out, exitCode>>
             ELSE /\ engine' = Append(engine, Call(argv, rc))
                  /\ IF rc = 0
                     THEN pc' = "done" /\ UNCHANGED <<out, exitCode>>
                     ELSE Exit(1, << <<"CalledProcessError">> >>)
    /\ UNCHANGED <<command, fs, config, templates, tIdx, input_parts, cid, pIdx, params,
                   dkrargs, base_image, build_parts, init_file, build_file>>

-----------------------------------------------------------------------------

Init ==
    /\ pc = "parse_args"
    /\ command \in Commands
    /\ fs \in [{template_root[i] : i \in DOMAIN template_root} \X TemplateNames -> FileStates]
    /\ config \in ConfigFiles
    /\ templates = <<>>
    /\ tIdx = 1
    /\ input_parts = <<>>
    /\ cid = ""
    /\ pIdx = 1
    /\ params = EmptyDict
    /\ dkrargs = <<>>
    /\ base_image = BASE_IMAGE
    /\ build_parts = <<>>
    /\ init_file = Stale
    /\ build_file = Stale
    /\ engine = <<>>
    /\ out = <<>>
    /\ exitCode = 0

Next ==
    \/ ParseArgs
    \/ ReadConfig
    \/ LoadTemplate
    \/ ReturnParts
    \/ DockerPs
    \/ BeginCompose
    \/ ComposePart
    \/ WriteInit
    \/ WriteBuild
    \/ DockerBuild
    \/ StartContainer
    \/ Dispatch

Spec == Init /\ [][Next]_vars

-----------------------------------------------------------------------------
(* Properties *)

Roots == {template_root[i] : i \in DOMAIN template_root}

(* load_config has returned its document sequence. *)
Returned ==
    \/ pc \in {"docker_ps", "begin_compose", "compose", "write_build", "docker_build",
               "start", "dispatch", "done"}
    \/ pc = "exit" /\ engine # <<>>

(* The pass over input_parts has run to its end. *)
PassDone ==
    \/ pc \in {"write_build", "docker_build", "start", "done"} /\ command \in ComposingCommands
    \/ pc = "compose" /\ pIdx > Len(input_parts)
    \/ pc = "exit" /\ init_file # Stale

ListedTemplates == GetTemplates(config.text.yml)

(* C1: the sequence load_config returns is the bootstrap fragment, then one *)
(* fragment per listed template in listed order, each the text of that      *)
(* template at some root where it exists, then the config file's text; its  *)
(* length is the number of templates plus two.                              *)
C1_DocumentOrder ==
    Returned =>
        /\ Len(input_parts) = Len(ListedTemplates) + 2
        /\ input_parts[1].raw = <<Lit("hack: true")>>
        /\ \A i \in 1..Len(ListedTemplates) :
              \E r \in Roots : /\ fs[r, ListedTemplates[i]] # "absent"
                               /\ input_parts[i + 1] = FileText(r, ListedTemplates[i])
        /\ input_parts[Len(input_parts)] = config.text

C1_Witness ==
    /\ pc = "done"
    /\ Len(ListedTemplates) = 2
    /\ ListedTemplates[1] # ListedTemplates[2]
    /\ Len(input_parts) = 4

EnvItems(i) == IF Has(input_parts[i].yml, "env") THEN input_parts[i].yml.env ELSE <<>>

HasPair(flag, kv) ==
    \E j \in 1..(Len(dkrargs) - 1) : dkrargs[j] = <<flag>> /\ dkrargs[j + 1] = kv

(* C2: when a template and the config file declare the same env key with   *)
(* different values, the arguments hold the config's -e pair and no -e     *)
(* pair with the template's value.                                         *)
C2_ConfigEnvReplacesTemplateEnv ==
    PassDone =>
        \A i \in 2..(Len(input_parts) - 1) :
          \A a \in 1..Len(EnvItems(i)) :
            \A b \in 1..Len(EnvItems(Len(input_parts))) :
              LET ta == EnvItems(i)[a]
                  cb == EnvItems(Len(input_parts))[b]
              IN  (ta[1] = cb[1] /\ FlagValue(ta[2]) # FlagValue(cb[2])) =>
                      /\ HasPair("-e", <<cb[1], "=">> \o FlagValue(cb[2]))
                      /\ ~HasPair("-e", <<ta[1], "=">> \o FlagValue(ta[2]))

(* C3: an artifact differs from what the earlier run left only in a         *)
(* composing command whose pass parsed and merged every document.           *)
C3_NoArtifactBeforeFullParse ==
    (init_file # Stale \/ build_file # Stale) =>
        /\ command \in ComposingCommands
        /\ pIdx = Len(input_parts) + 1
        /\ \A i \in 1..Len(input_parts) : input_parts[i].valid

C3_Witness ==
    /\ pc = "exit"
    /\ command \in ComposingCommands
    /\ pIdx \in 2..Len(input_parts)
    /\ ~input_parts[pIdx].valid
    /\ dkrargs # <<>>
    /\ init_file = Stale
    /\ build_file = Stale

Exists(name) == \E r \in Roots : fs[r, name] # "absent"

FirstRootWith(name) ==
    template_root[CHOOSE i \in DOMAIN template_root :
                     /\ fs[template_root[i], name] # "absent"
                     /\ \A j \in 1..(i - 1) : fs[template_root[j], name] = "absent"]

(* C4: every template fragment is the file of the first root in which the  *)
(* template exists, and a template that exists in no root ends the run     *)
(* with a non-zero status before a sequence is returned.                   *)
C4_FirstExistingRootIsUsed ==
    /\ \A i \in 1..Len(templates) :
          (i + 1 <= Len(input_parts)) =>
              /\ Exists(templates[i])
              /\ input_parts[i + 1] = FileText(FirstRootWith(templates[i]), templates[i])
    /\ (\E i \in 1..Len(templates) : ~Exists(templates[i])) => ~Returned
    /\ (pc = "exit" /\ ~Returned) => exitCode # 0

ReadErrorPrinted ==
    \E j \in 1..Len(out) : out[j][1] = "Error reading template "

(* C5: once a template file that exists could not be read, the process has *)
(* halted with a non-zero status, no engine command was invoked and no     *)
(* artifact was written.                                                   *)
C5_UnreadableTemplateIsFatal ==
    ReadErrorPrinted =>
        /\ pc = "exit"
        /\ exitCode # 0
        /\ engine = <<>>
        /\ init_file = Stale
        /\ build_file = Stale

RECURSIVE Substituted(_, _)
Substituted(ps, parts) ==
    IF parts = <<>> THEN <<>>
    ELSE <<substitute(ps, Head(parts).raw)>> \o Substituted(ps, Tail(parts))

(* C6: after a composing run the persisted init artifact is the documents  *)
(* with every known $token replaced and every unknown one left verbatim,   *)
(* and a warning was printed for every unknown token.                      *)
C6_SubstitutedOutputAndWarnings ==
    (pc = "done" /\ command \in ComposingCommands) =>
        /\ init_file = Join(MAGIC_SEPARATOR, Substituted(params, input_parts))
        /\ \A i \in 1..Len(input_parts) :
             LET w == substitute_warnings(params, input_parts[i].raw)
             IN  \A j \in 1..Len(w) : \E m \in 1..Len(out) : out[m] = w[j]

(* C7: no command of the selector is rejected by the argument parser, and  *)
(* a finished `logs` run has invoked the engine's logs command for the     *)
(* config's container.                                                     *)
C7_EveryCommandAccepted ==
    /\ exitCode # 2
    /\ (command = "logs" /\ pc = "done") =>
          \E j \in 1..Len(engine) :
              engine[j].argv = << <<"docker">>, <<"logs">>, config_name >>

(* The text the claim gives a value: empty for null, else its textual form. *)
ClaimedValue(v) ==
    Replace(IF v.k = "null" THEN <<>> ELSE PyStr(v), "{config}", config_name)

LabelItems(i) == IF Has(input_parts[i].yml, "labels") THEN input_parts[i].yml.labels ELSE <<>>

(* C8: every env and labels entry of every document is in the arguments as *)
(* key=text(value), null giving the empty string and every other value     *)
(* (0 and false included) its textual form, {config} replaced.             *)
C8_FlagValuesKeepTheirText ==
    PassDone =>
        \A i \in 1..Len(input_parts) :
            /\ \A a \in 1..Len(EnvItems(i)) :
                 HasPair("-e", <<EnvItems(i)[a][1], "=">> \o ClaimedValue(EnvItems(i)[a][2]))
            /\ \A a \in 1..Len(LabelItems(i)) :
                 HasPair("-l", <<LabelItems(i)[a][1], "=">> \o ClaimedValue(LabelItems(i)[a][2]))

ParamsOf(i) == IF Has(input_parts[i].yml, "params") THEN input_parts[i].yml.params ELSE EmptyDict

LastWith(key) ==
    CHOOSE i \in 1..Len(input_parts) :
        /\ key \in DOMAIN ParamsOf(i)
        /\ \A j \in (i + 1)..Len(input_parts) : key \notin DOMAIN ParamsOf(j)

(* C9: after the pass the ParameterSet has exactly the keys of the         *)
(* documents' params sections, each with the value of the last document    *)
(* that has the key.                                                       *)
C9_LastDocumentWins ==
    PassDone =>
        /\ DOMAIN params = UNION {DOMAIN ParamsOf(i) : i \in 1..Len(input_parts)}
        /\ \A key \in DOMAIN params : params[key] = ParamsOf(LastWith(key))[key]

C9_Witness ==
    /\ pc = "done"
    /\ \E i \in 1..Len(input_parts) : \E j \in (i + 1)..Len(input_parts) :
         \E key \in DOMAIN ParamsOf(i) \cap DOMAIN ParamsOf(j) :
            /\ ParamsOf(i)[key] # ParamsOf(j)[key]
            /\ j = Len(input_parts)
    /\ \E i \in 1..(Len(input_parts) - 1) :
         \E key \in DOMAIN ParamsOf(i) : LastWith(key) = i

RECURSIVE Verbs(_)
Verbs(calls) ==
    IF calls = <<>> THEN <<>> ELSE <<Head(calls).argv[2][1]>> \o Verbs(Tail(calls))

(* C10: a finished rebuild whose container query returned nothing has only *)
(* built the image; one that found a running container has stopped it,     *)
(* built and then run.                                                     *)
C10_RebuildRestartsOnlyIfRunning ==
    (command = "rebuild" /\ pc = "done") =>
        Verbs(engine) = IF cid = "" THEN <<"ps", "build">>
                        ELSE <<"ps", "stop", "build", "run">>

====
